---- MODULE Spec2Model ----
(***************************************************************************)
(* Portfolio ledger (FinanceApp/database.py), the PortfolioPage handlers   *)
(* that drive it and the dashboard analytics (main.py).                    *)
(*                                                                         *)
(* Text typed into an entry widget is a sequence of one-character strings. *)
(* A Python float is an extended rational [k, n, d]: k = "fin" is n/d in   *)
(* lowest terms, k = "inf" is +-infinity (sign n), k = "nan" is NaN.       *)
(* Rounding of IEEE doubles is not modelled: arithmetic is exact.          *)
(***************************************************************************)
EXTENDS Integers, Sequences, FiniteSets, TLC

----------------------------------------------------------------------------
(* Bounds of the model                                                     *)

\* largest quantity one position may reach through add_ticker
MaxQty == 20

\* handler calls the user may make
MaxOps == 3

\* sqlite errors that may strike the handlers
MaxFaults == 1

\* callbacks that may wait in the Tk event loop
MaxAfter == 1

\* largest total of purchased quantity the purchase record follows
MaxBought == 30

\* trading days a price history may cover
MaxDates == 2

\* handler calls the user may make while the dashboard is loading
MaxLiveOps == 1

----------------------------------------------------------------------------
(* str methods used by the handlers                                        *)

DecimalChars == {"0", "1", "2", "3", "4", "5", "6", "7", "8", "9"}

\* str.isdigit also accepts digit characters that are no decimals
SuperscriptChars == {"²"}

DigitVal(c) ==
  CASE c = "0" -> 0 [] c = "1" -> 1 [] c = "2" -> 2 [] c = "3" -> 3
    [] c = "4" -> 4 [] c = "5" -> 5 [] c = "6" -> 6 [] c = "7" -> 7
    [] c = "8" -> 8 [] c = "9" -> 9

UpperChar(c) ==
  CASE c = "a" -> "A" [] c = "b" -> "B" [] c = "c" -> "C" [] c = "f" -> "F"
    [] c = "i" -> "I" [] c = "l" -> "L" [] c = "m" -> "M" [] c = "n" -> "N"
    [] c = "p" -> "P" [] c = "s" -> "S" [] c = "t" -> "T" [] c = "x" -> "X"
    [] OTHER -> c

RECURSIVE lstrip(_)
lstrip(s) ==
  IF s = <<>> THEN <<>>
  ELSE IF Head(s) = " " THEN lstrip(Tail(s)) ELSE s

RECURSIVE rstrip(_)
rstrip(s) ==
  IF s = <<>> THEN <<>>
  ELSE IF s[Len(s)] = " " THEN rstrip(SubSeq(s, 1, Len(s) - 1)) ELSE s

strip(s) == rstrip(lstrip(s))

RECURSIVE upper(_)
upper(s) ==
  IF s = <<>> THEN <<>> ELSE <<UpperChar(Head(s))>> \o upper(Tail(s))

isdigit(s) ==
  /\ s # <<>>
  /\ \A i \in 1..Len(s) : s[i] \in DecimalChars \cup SuperscriptChars

----------------------------------------------------------------------------
(* int() and float()                                                       *)

ValueError == [ok |-> FALSE, v |-> 0]

RECURSIVE DecimalValue(_)
DecimalValue(s) ==
  IF s = <<>> THEN 0
  ELSE 10 * DecimalValue(SubSeq(s, 1, Len(s) - 1)) + DigitVal(s[Len(s)])

AllDecimal(s) == \A i \in 1..Len(s) : s[i] \in DecimalChars

\* int(str): optional sign, then one or more decimal digits
int(s) ==
  LET neg  == s # <<>> /\ Head(s) = "-"
      body == IF s # <<>> /\ Head(s) \in {"-", "+"} THEN Tail(s) ELSE s
  IN  IF body # <<>> /\ AllDecimal(body)
      THEN [ok |-> TRUE,
            v  |-> IF neg THEN 0 - DecimalValue(body) ELSE DecimalValue(body)]
      ELSE ValueError

RECURSIVE GCD(_, _)
GCD(a, b) == IF b = 0 THEN a ELSE GCD(b, a % b)

Abs(n) == IF n < 0 THEN 0 - n ELSE n

RECURSIVE Pow10(_)
Pow10(k) == IF k = 0 THEN 1 ELSE 10 * Pow10(k - 1)

\* the float n/d, d > 0, in lowest terms
Fin(n, d) ==
  LET g == GCD(Abs(n), d)
  IN  [k |-> "fin", n |-> n \div g, d |-> d \div g]

Inf == [k |-> "inf", n |-> 1, d |-> 0]
NegInf == [k |-> "inf", n |-> 0 - 1, d |-> 0]
NaN == [k |-> "nan", n |-> 0, d |-> 0]

FloatError == [k |-> "ValueError", n |-> 0, d |-> 0]

\* position of the decimal point in s, 0 when there is none
DotAt(s) ==
  IF \E i \in 1..Len(s) : s[i] = "."
  THEN CHOOSE i \in 1..Len(s) : s[i] = "." /\ \A j \in 1..(i - 1) : s[j] # "."
  ELSE 0

\* float(str): optional sign, then nan, inf, infinity or a decimal literal
float(s) ==
  LET neg  == s # <<>> /\ Head(s) = "-"
      body == IF s # <<>> /\ Head(s) \in {"-", "+"} THEN Tail(s) ELSE s
      word == upper(body)
      dot  == DotAt(body)
      ip   == IF dot = 0 THEN body ELSE SubSeq(body, 1, dot - 1)
      fp   == IF dot = 0 THEN <<>> ELSE SubSeq(body, dot + 1, Len(body))
      mag  == DecimalValue(ip \o fp)
  IN  IF word = <<"N", "A", "N">> THEN NaN
      ELSE IF word \in {<<"I", "N", "F">>,
                        <<"I", "N", "F", "I", "N", "I", "T", "Y">>}
        THEN (IF neg THEN NegInf ELSE Inf)
      ELSE IF AllDecimal(ip) /\ AllDecimal(fp) /\ ip \o fp # <<>>
        THEN Fin(IF neg THEN 0 - mag ELSE mag, Pow10(Len(fp)))
      ELSE FloatError

\* PortfolioPage.is_float
is_float(val) == float(val) # FloatError

----------------------------------------------------------------------------
(* float arithmetic and comparison                                         *)

\* int * float
IntTimes(q, x) ==
  IF x.k = "nan" THEN NaN
  ELSE IF x.k = "inf"
    THEN (IF q = 0 THEN NaN
          ELSE IF (q > 0) = (x.n > 0) THEN Inf ELSE NegInf)
  ELSE Fin(q * x.n, x.d)

\* float + float
Plus(x, y) ==
  IF x.k = "nan" \/ y.k = "nan" THEN NaN
  ELSE IF x.k = "inf" /\ y.k = "inf" THEN (IF x.n = y.n THEN x ELSE NaN)
  ELSE IF x.k = "inf" THEN x
  ELSE IF y.k = "inf" THEN y
  ELSE Fin(x.n * y.d + y.n * x.d, x.d * y.d)

\* float / int, for a positive divisor
DivInt(x, q) ==
  IF x.k = "fin" THEN Fin(x.n, x.d * q) ELSE x

\* x <= 0, false for NaN
LeZero(x) ==
  CASE x.k = "nan" -> FALSE
    [] x.k = "inf" -> x.n < 0
    [] OTHER -> x.n <= 0

\* x > 0, false for NaN
GtZero(x) ==
  CASE x.k = "nan" -> FALSE
    [] x.k = "inf" -> x.n > 0
    [] OTHER -> x.n > 0

----------------------------------------------------------------------------
(* Database: the portfolio table is the sequence of its rows               *)
(* <<ticker, quantity, avg_price>> in rowid order                          *)

None == <<>>

\* SELECT ticker, quantity, avg_price FROM portfolio WHERE ticker = ?
\* followed by fetchone()
SelectRow(table, ticker) ==
  IF \E i \in 1..Len(table) : table[i][1] = ticker
  THEN table[CHOOSE i \in 1..Len(table) : table[i][1] = ticker]
  ELSE None

\* INSERT INTO portfolio (ticker, quantity, avg_price) VALUES (?, ?, ?)
InsertRow(table, ticker, quantity, avg_price) ==
  Append(table, <<ticker, quantity, avg_price>>)

\* UPDATE portfolio SET quantity = ?, avg_price = ? WHERE ticker = ?
UpdateRow(table, ticker, quantity, avg_price) ==
  [i \in 1..Len(table) |->
     IF table[i][1] = ticker THEN <<ticker, quantity, avg_price>>
     ELSE table[i]]

\* UPDATE portfolio SET quantity = ? without the WHERE clause
UpdateQuantity_every_row(table, ticker, quantity) ==
  [i \in 1..Len(table) |-> <<table[i][1], quantity, table[i][3]>>]

\* UPDATE portfolio SET quantity = ? WHERE ticker = ?
UpdateQuantity(table, ticker, quantity) ==
  [i \in 1..Len(table) |->
     IF table[i][1] = ticker THEN <<ticker, quantity, table[i][3]>>
     ELSE table[i]]

\* DELETE FROM portfolio WHERE ticker = ?
RECURSIVE DeleteRow(_, _)
DeleteRow(table, ticker) ==
  IF table = <<>> THEN <<>>
  ELSE IF Head(table)[1] = ticker THEN DeleteRow(Tail(table), ticker)
  ELSE <<Head(table)>> \o DeleteRow(Tail(table), ticker)

\* avg_price REAL NOT NULL: sqlite binds a NaN as NULL
NotNullViolation(avg_price) == avg_price.k = "nan"

\* Database.load_portfolio: one dict per row
load_portfolio(table) ==
  [i \in 1..Len(table) |->
     [ticker |-> table[i][1], quantity |-> table[i][2],
      avg_price |-> table[i][3]]]

\* the plain mean of the two prices
new_avg_price_unweighted(old_qty, old_price, quantity, price) ==
  DivInt(Plus(old_price, price), 2)

\* the cost of the new lot divided by the new total quantity
new_avg_price_new_lot_only(old_qty, old_price, quantity, price) ==
  DivInt(IntTimes(quantity, price), old_qty + quantity)

\* the weighted average of Database.save_item
new_avg_price(old_qty, old_price, quantity, price) ==
  LET total_cost_old == IntTimes(old_qty, old_price)
      total_cost_new == IntTimes(quantity, price)
      total_qty      == old_qty + quantity
  IN  DivInt(Plus(total_cost_old, total_cost_new), total_qty)

\* Database.save_item; io_error: sqlite raises for a cause outside the
\* program (locked or unwritable file).  Nothing is committed on an error.
save_item(table, ticker, quantity, price, io_error) ==
  LET row == SelectRow(table, ticker)
      avg == IF row = None THEN price
             ELSE new_avg_price(row[2], row[3], quantity, price)
  IN  IF io_error \/ NotNullViolation(avg)
      THEN [error |-> TRUE, table |-> table]
      ELSE IF row = None
        THEN [error |-> FALSE,
              table |-> InsertRow(table, ticker, quantity, price)]
      ELSE [error |-> FALSE,
            table |-> UpdateRow(table, ticker, row[2] + quantity, avg)]

\* the quantity argument of remove_or_reduce_item: an int or None
NoQuantity == [some |-> FALSE, v |-> 0]
SomeQuantity(q) == [some |-> TRUE, v |-> q]

\* new_qty < 0 in place of new_qty <= 0
QuantityExhausted_strict(new_qty) == new_qty < 0

\* the test that decides between deleting and updating the row
QuantityExhausted(new_qty) == new_qty <= 0

\* Database.remove_or_reduce_item
remove_or_reduce_item(table, ticker, quantity, io_error) ==
  LET row == SelectRow(table, ticker)
  IN  IF io_error THEN [error |-> TRUE, table |-> table]
      ELSE IF ~quantity.some
        THEN [error |-> FALSE, table |-> DeleteRow(table, ticker)]
      ELSE IF row = None THEN [error |-> FALSE, table |-> table]
      ELSE IF QuantityExhausted(row[2] - quantity.v)
        THEN [error |-> FALSE, table |-> DeleteRow(table, ticker)]
      ELSE [error |-> FALSE,
            table |-> UpdateQuantity(table, ticker, row[2] - quantity.v)]

----------------------------------------------------------------------------
(* State                                                                   *)

VARIABLES
  db,              \* rows of the portfolio table of portfolio.db
  portfolio_data,  \* App.portfolio_data, the list of dicts last loaded
  last,            \* the PortfolioPage handler that ran last and its outcome
  queue,           \* DashboardPage.executor: jobs submitted and not started
  worker,          \* the executor's one thread: idle, or inside a job
  after_queue,     \* callbacks posted with self.after(0, ...), not yet run
  grid,            \* widgets of DashboardPage.grid_container
  report,          \* figures of the labels display_charts created last
  purchases,       \* per ticker, the purchases since the position was opened
  ops,             \* handler calls made so far
  faults           \* sqlite errors raised in handler calls so far

vars == <<db, portfolio_data, last, queue, worker, after_queue, grid, report,
          purchases, ops, faults>>

----------------------------------------------------------------------------
(* PortfolioPage handlers                                                  *)

\* what a handler leaves behind: the message box it showed ("" for none),
\* whether it called the Database and whether that call committed, the
\* entries as it parsed them and the row the ticker had before the call
Handled(op, ticker, quantity, price, msg, stored, row) ==
  [op |-> op, ticker |-> ticker, quantity |-> quantity, price |-> price,
   msg |-> msg, stored |-> stored, row |-> row,
   committed |-> stored /\ msg \in {"", "DB-Fehler: Laden"},
   undone |-> None]

NoPrice == FloatError

\* the validation without the test of the quantity
ValuesRejected_price_only(new_qty, new_price) == LeZero(new_price)

\* the validation of quantity and price after parsing (main.py:598)
ValuesRejected(new_qty, new_price) == new_qty <= 0 \/ LeZero(new_price)

\* App.reload_portfolio_data; a failing load keeps the old list
reload_portfolio_data(table, old_list, io) ==
  IF io = "load" THEN old_list ELSE load_portfolio(table)

\* PortfolioPage.add_ticker up to the call of dash.update_dashboard():
\* the new table, the new list, the record of the call and whether
\* update_dashboard is reached
add_ticker(ticker_entry, quantity_entry, price_entry, io) ==
  LET new_ticker == upper(strip(ticker_entry))
      qty_str    == strip(quantity_entry)
      price_str  == strip(price_entry)
      new_qty    == int(qty_str)
      new_price  == float(price_str)
      saved      == save_item(db, new_ticker, new_qty.v, new_price,
                              io = "store")
      stay(msg)  == [db |-> db, portfolio_data |-> portfolio_data,
                     dash |-> FALSE, fault |-> FALSE,
                     last |-> Handled("add_ticker", <<>>, 0, NoPrice, msg,
                                      FALSE, None)]
  IN  IF new_ticker = <<>> \/ qty_str = <<>> \/ price_str = <<>>
        THEN stay("Eingabe unvollstaendig")
      ELSE IF ~isdigit(qty_str) \/ ~is_float(price_str)
        THEN stay("Ungueltige Eingabe")
      ELSE IF ~new_qty.ok
        THEN stay("ValueError")
      ELSE IF ValuesRejected(new_qty.v, new_price)
        THEN stay("Ungueltige Werte")
      ELSE IF saved.error
        THEN [db |-> db, portfolio_data |-> portfolio_data, dash |-> FALSE,
              fault |-> io = "store",
              last |-> Handled("add_ticker", new_ticker, new_qty.v,
                               new_price, "DB-Fehler: Speichern", TRUE,
                               SelectRow(db, new_ticker))]
      ELSE [db |-> saved.table,
            portfolio_data |->
              reload_portfolio_data(saved.table, portfolio_data, io),
            dash |-> TRUE, fault |-> io = "load",
            last |-> Handled("add_ticker", new_ticker, new_qty.v, new_price,
                             IF io = "load" THEN "DB-Fehler: Laden" ELSE "",
                             TRUE, SelectRow(db, new_ticker))]

\* PortfolioPage.reduce_quantity up to dash.update_dashboard()
reduce_quantity(rm_ticker_entry, rm_quantity_entry, io) ==
  LET ticker  == upper(strip(rm_ticker_entry))
      qty_str == strip(rm_quantity_entry)
      qty     == int(qty_str)
      removed == remove_or_reduce_item(db, ticker, SomeQuantity(qty.v),
                                       io = "store")
      stay(msg) == [db |-> db, portfolio_data |-> portfolio_data,
                    dash |-> FALSE, fault |-> FALSE,
                    last |-> Handled("reduce_quantity", <<>>, 0, NoPrice,
                                     msg, FALSE, None)]
  IN  IF ticker = <<>> THEN stay("Fehlender Ticker")
      ELSE IF ~isdigit(qty_str) THEN stay("Ungueltige Eingabe")
      ELSE IF ~qty.ok THEN stay("ValueError")
      ELSE IF qty.v <= 0 THEN stay("Ungueltige Werte")
      ELSE IF removed.error
        THEN [db |-> db, portfolio_data |-> portfolio_data, dash |-> FALSE,
              fault |-> TRUE,
              last |-> Handled("reduce_quantity", ticker, qty.v, NoPrice,
                               "DB-Fehler: Reduzieren", TRUE,
                               SelectRow(db, ticker))]
      ELSE [db |-> removed.table,
            portfolio_data |->
              reload_portfolio_data(removed.table, portfolio_data, io),
            dash |-> TRUE, fault |-> io = "load",
            last |-> Handled("reduce_quantity", ticker, qty.v, NoPrice,
                             IF io = "load" THEN "DB-Fehler: Laden" ELSE "",
                             TRUE, SelectRow(db, ticker))]

\* PortfolioPage.delete_ticker up to dash.update_dashboard()
delete_ticker(rm_ticker_entry, io) ==
  LET ticker  == upper(strip(rm_ticker_entry))
      removed == remove_or_reduce_item(db, ticker, NoQuantity, io = "store")
  IN  IF ticker = <<>>
        THEN [db |-> db, portfolio_data |-> portfolio_data, dash |-> FALSE,
              fault |-> FALSE,
              last |-> Handled("delete_ticker", <<>>, 0, NoPrice,
                               "Fehlender Ticker", FALSE, None)]
      ELSE IF removed.error
        THEN [db |-> db, portfolio_data |-> portfolio_data, dash |-> FALSE,
              fault |-> TRUE,
              last |-> Handled("delete_ticker", ticker, 0, NoPrice,
                               "DB-Fehler: Loeschen", TRUE,
                               SelectRow(db, ticker))]
      ELSE [db |-> removed.table,
            portfolio_data |->
              reload_portfolio_data(removed.table, portfolio_data, io),
            dash |-> TRUE, fault |-> io = "load",
            last |-> Handled("delete_ticker", ticker, 0, NoPrice,
                             IF io = "load" THEN "DB-Fehler: Laden" ELSE "",
                             TRUE, SelectRow(db, ticker))]

----------------------------------------------------------------------------
(* Dashboard: price history and the figures of display_charts              *)
(* A history is the provider's answer: <<date, close>> in ascending date   *)
(* order, <<>> when it has no data.  A DataFrame is the sequence of its    *)
(* rows.                                                                   *)

\* TotalValue without the factor quantity
fetch_stock_history_unscaled(ticker, quantity, history) ==
  IF history = <<>> THEN <<>>
  ELSE [i \in 1..Len(history) |->
          [Date |-> history[i][1], Ticker |-> ticker,
           TotalValue |-> history[i][2]]]

\* fetch_stock_history, given what yfinance returned for the ticker
fetch_stock_history(ticker, quantity, history) ==
  IF history = <<>> THEN <<>>
  ELSE [i \in 1..Len(history) |->
          [Date |-> history[i][1], Ticker |-> ticker,
           TotalValue |-> history[i][2] * quantity]]

\* pd.concat(frames, ignore_index=True)
RECURSIVE concat(_)
concat(frames) ==
  IF frames = <<>> THEN <<>> ELSE Head(frames) \o concat(Tail(frames))

\* sum of TotalValue over the rows of one date
RECURSIVE SumOnDate(_, _)
SumOnDate(data, date) ==
  IF data = <<>> THEN 0
  ELSE (IF Head(data).Date = date THEN Head(data).TotalValue ELSE 0)
       + SumOnDate(Tail(data), date)

\* the elements of a set of dates in ascending order
RECURSIVE sort_index(_)
sort_index(dates) ==
  IF dates = {} THEN <<>>
  ELSE LET first == CHOOSE d \in dates : \A e \in dates : d <= e
       IN  <<first>> \o sort_index(dates \ {first})

\* data.groupby("Date")["TotalValue"].sum().sort_index():
\* the sequence of <<date, sum>>
total_values_of(data) ==
  LET index == sort_index({data[i].Date : i \in 1..Len(data)})
  IN  [j \in 1..Len(index) |-> <<index[j], SumOnDate(data, index[j])>>]

\* a / b * 100 on numpy floats: a zero divisor gives inf or nan
Percent(a, b) ==
  IF b = 0 THEN (IF a = 0 THEN NaN ELSE IF a > 0 THEN Inf ELSE NegInf)
  ELSE IF b > 0 THEN Fin(a * 100, b)
  ELSE Fin(0 - a * 100, 0 - b)

Zero == Fin(0, 1)

\* no guard at all
NonZero_unguarded(value) == TRUE

\* the test that guards a division by a portfolio value
NonZero(value) == value # 0

\* enough points for a day-over-day comparison
HasTwoPoints(total_values) == Len(total_values) >= 2

\* main.py:230-234
daily_change_of(total_values) ==
  LET n == Len(total_values)
  IN  IF HasTwoPoints(total_values)
      THEN total_values[n][2] - total_values[n - 1][2]
      ELSE 0

daily_percent_of(total_values) ==
  LET n == Len(total_values)
  IN  IF HasTwoPoints(total_values) /\ NonZero(total_values[n - 1][2])
      THEN Percent(daily_change_of(total_values), total_values[n - 1][2])
      ELSE Zero

\* main.py:236
current_total_of(total_values) ==
  IF total_values # <<>> THEN total_values[Len(total_values)][2] ELSE 0

\* main.py:238-242
period_return_of(total_values) ==
  IF HasTwoPoints(total_values) /\ NonZero(total_values[1][2])
  THEN Percent(current_total_of(total_values) - total_values[1][2],
               total_values[1][2])
  ELSE Zero

\* the code points of the characters a stored ticker is compared by
CodePoints ==
  <<"0", "1", "2", "3", "4", "5", "6", "7", "8", "9",
    "A", "B", "C", "D", "E", "F", "G", "H", "I", "J", "K", "L", "M",
    "N", "O", "P", "Q", "R", "S", "T", "U", "V", "W", "X", "Y", "Z">>

ord(c) == CHOOSE i \in 1..Len(CodePoints) : CodePoints[i] = c

\* str < str: lexicographic by code point
RECURSIVE StrLess(_, _)
StrLess(a, b) ==
  IF b = <<>> THEN FALSE
  ELSE IF a = <<>> THEN TRUE
  ELSE IF Head(a) = Head(b) THEN StrLess(Tail(a), Tail(b))
  ELSE ord(Head(a)) < ord(Head(b))

\* the elements of a set of tickers in ascending order
RECURSIVE sorted(_)
sorted(keys) ==
  IF keys = {} THEN <<>>
  ELSE LET first == CHOOSE k \in keys :
                      \A e \in keys : e = k \/ StrLess(k, e)
       IN  <<first>> \o sorted(keys \ {first})

\* the distinct tickers of data in the order of their first row
RECURSIVE TickerKeys_unsorted(_)
TickerKeys_unsorted(data) ==
  IF data = <<>> THEN <<>>
  ELSE LET init == TickerKeys_unsorted(SubSeq(data, 1, Len(data) - 1))
           t    == data[Len(data)].Ticker
       IN  IF \E i \in 1..Len(init) : init[i] = t THEN init
           ELSE Append(init, t)

\* the group keys of data.groupby("Ticker"): sort=True is the default
TickerKeys(data) == sorted({data[i].Ticker : i \in 1..Len(data)})

\* the rows of one group, in the order they have in data
group_of(data, ticker) ==
  LET InGroup(r) == r.Ticker = ticker
  IN  SelectSeq(data, InGroup)

\* group.sort_values("Date"), for a group with one row per date
sort_values_Date(group) ==
  LET index == sort_index({group[i].Date : i \in 1..Len(group)})
  IN  [j \in 1..Len(index) |->
         group[CHOOSE i \in 1..Len(group) : group[i].Date = index[j]]]

\* the first row of the group in place of the last
composition_of_first(data) ==
  LET keys == TickerKeys(data)
  IN  [j \in 1..Len(keys) |->
         <<keys[j], group_of(data, keys[j])[1].TotalValue>>]

\* data.groupby("Ticker")["TotalValue"].last(): <<ticker, value>> by ticker
composition_of(data) ==
  LET keys == TickerKeys(data)
  IN  [j \in 1..Len(keys) |->
         LET group == group_of(data, keys[j])
         IN  <<keys[j], group[Len(group)].TotalValue>>]

\* main.py:246-252 for one group
pct_of(group) ==
  LET group_sorted == sort_values_Date(group)
      start_val    == group_sorted[1].TotalValue
      end_val      == group_sorted[Len(group_sorted)].TotalValue
  IN  IF NonZero(start_val) THEN Percent(end_val - start_val, start_val)
      ELSE Zero

\* perf_dict as the sequence of its items <<ticker, pct>> in insertion order
perf_dict_of(data) ==
  LET keys == TickerKeys(data)
  IN  [j \in 1..Len(keys) |-> <<keys[j], pct_of(group_of(data, keys[j]))>>]

\* x < y on floats, false when either is NaN
FloatLess(x, y) ==
  IF x.k = "nan" \/ y.k = "nan" THEN FALSE
  ELSE IF x.k = "inf" THEN x.n < 0 /\ y # x
  ELSE IF y.k = "inf" THEN y.n > 0
  ELSE x.n * y.d < y.n * x.d

\* max(perf_dict, key=perf_dict.get): a later item wins only if greater
RECURSIVE max_item(_, _)
max_item(best, rest) ==
  IF rest = <<>> THEN best
  ELSE max_item(IF FloatLess(best[2], Head(rest)[2]) THEN Head(rest)
                ELSE best, Tail(rest))

\* min(perf_dict, key=perf_dict.get): a later item wins only if less
RECURSIVE min_item(_, _)
min_item(best, rest) ==
  IF rest = <<>> THEN best
  ELSE min_item(IF FloatLess(Head(rest)[2], best[2]) THEN Head(rest)
                ELSE best, Tail(rest))

NoPerformer == <<"n/a", Zero>>

\* main.py:255-261
top_of(perf_dict) ==
  IF perf_dict # <<>> THEN max_item(Head(perf_dict), Tail(perf_dict))
  ELSE NoPerformer

flop_of(perf_dict) ==
  IF perf_dict # <<>> THEN min_item(Head(perf_dict), Tail(perf_dict))
  ELSE NoPerformer

\* sum(i["quantity"] * i["avg_price"] for i in self.app.portfolio_data)
RECURSIVE portfolio_cost_of(_)
portfolio_cost_of(list) ==
  IF list = <<>> THEN Zero
  ELSE Plus(portfolio_cost_of(SubSeq(list, 1, Len(list) - 1)),
            IntTimes(list[Len(list)].quantity, list[Len(list)].avg_price))

\* composition.sum() if not composition.empty else 0
RECURSIVE portfolio_value_of(_)
portfolio_value_of(composition) ==
  IF composition = <<>> THEN 0
  ELSE Head(composition)[2] + portfolio_value_of(Tail(composition))

\* portfolio_cost >= 0 in place of portfolio_cost > 0
HasCost_or_zero(portfolio_cost) ==
  GtZero(portfolio_cost) \/ portfolio_cost = Zero

\* the test that guards the division by the cost basis
HasCost(portfolio_cost) == GtZero(portfolio_cost)

\* ((value - cost) / cost) * 100 on floats, for a float cost that is not NaN
ReturnOn(portfolio_value, portfolio_cost) ==
  IF portfolio_cost.k = "inf" THEN NaN
  ELSE IF portfolio_cost.n = 0
    THEN (IF portfolio_value = 0 THEN NaN
          ELSE IF portfolio_value > 0 THEN Inf ELSE NegInf)
  ELSE IF portfolio_cost.n > 0
    THEN Fin((portfolio_value * portfolio_cost.d - portfolio_cost.n) * 100,
             portfolio_cost.n)
  ELSE Fin(0 - (portfolio_value * portfolio_cost.d - portfolio_cost.n) * 100,
           0 - portfolio_cost.n)

\* main.py:263-268
total_return_since_purchase_of(portfolio_value, portfolio_cost) ==
  IF HasCost(portfolio_cost) THEN ReturnOn(portfolio_value, portfolio_cost)
  ELSE Zero

\* kind: what display_charts drew since the last update_dashboard;
\* error: show_error opened its message box; source: the positions and
\* histories the frame was fetched for; positions: the list display_charts
\* read from the App
NoReport ==
  [kind |-> "none", error |-> FALSE, source |-> <<>>,
   total_values |-> <<>>, daily_change |-> 0,
   daily_percent |-> Zero, current_total |-> 0, period_return |-> Zero,
   composition |-> <<>>, top |-> NoPerformer, flop |-> NoPerformer,
   positions |-> <<>>, portfolio_cost |-> Zero, portfolio_value |-> 0,
   total_return_since_purchase |-> Zero]

\* data.empty treated as never true
Empty_never(data) == FALSE

\* data.empty
Empty(data) == data = <<>>

\* the figures DashboardPage.display_charts puts on the labels; list is
\* self.app.portfolio_data as the main thread finds it
display_charts(data, old, source, list) ==
  LET total_values == total_values_of(data)
      composition  == composition_of(data)
      perf_dict    == perf_dict_of(data)
      cost         == portfolio_cost_of(list)
      value        == portfolio_value_of(composition)
  IN  IF Empty(data)
      THEN [NoReport EXCEPT !.kind = "no_data", !.error = old.error,
                            !.source = source]
      ELSE [kind          |-> "charts",
            error         |-> old.error,
            source        |-> source,
            total_values  |-> total_values,
            daily_change  |-> daily_change_of(total_values),
            daily_percent |-> daily_percent_of(total_values),
            current_total |-> current_total_of(total_values),
            period_return |-> period_return_of(total_values),
            composition   |-> composition,
            top           |-> top_of(perf_dict),
            flop          |-> flop_of(perf_dict),
            positions     |-> list,
            portfolio_cost  |-> cost,
            portfolio_value |-> value,
            total_return_since_purchase |->
              total_return_since_purchase_of(value, cost)]

----------------------------------------------------------------------------
(* Inputs                                                                  *)

AAPL == <<"A", "A", "P", "L">>
MSFT == <<"M", "S", "F", "T">>

\* text typed into ticker_entry and rm_ticker_entry
RawTickers ==
  { <<" ">>, <<" ", "a", "a", "p", "l">>, <<"M", "S", "F", "T">> }

\* text typed into quantity_entry and rm_quantity_entry
RawQuantities ==
  { <<>>, <<"x">>, <<"0">>, <<"²">>, <<"5">>, <<"1", "0">> }

\* text typed into price_entry
RawPrices ==
  { <<>>, <<"0">>, <<"-", "5">>, <<"n", "a", "n">>, <<"i", "n", "f">>,
    <<"1", "0", "0">>, <<"2", "0", "0", ".", "0">> }

\* what sqlite does in one handler: all calls succeed, the write fails,
\* or the write succeeds and the load after it fails
IoOutcomes == {"ok", "store", "load"}

Tickers == {upper(strip(t)) : t \in RawTickers} \ {<<>>}

----------------------------------------------------------------------------
(* The purchase record: what was bought of a ticker since its position     *)
(* was opened.  It observes the handlers and is read by no handler.        *)

NoPurchases ==
  [qty |-> 0, cost |-> Zero, reduced |-> FALSE, sold |-> FALSE,
   tracked |-> TRUE]

\* the record of ticker after a handler that left h behind
PurchasesAfter(old, h) ==
  LET gone    == h.row # None /\
                 (h.op = "delete_ticker" \/ h.quantity >= h.row[2])
      fits    == old.qty + h.quantity <= MaxBought
  IN  IF ~h.committed THEN old
      ELSE IF h.op = "add_ticker"
        THEN (IF h.row = None
              THEN [old EXCEPT !.qty = h.quantity,
                               !.cost = IntTimes(h.quantity, h.price),
                               !.reduced = FALSE, !.tracked = TRUE]
              ELSE IF old.tracked /\ fits
              THEN [old EXCEPT !.qty = @ + h.quantity,
                               !.cost = Plus(@, IntTimes(h.quantity,
                                                         h.price))]
              ELSE [old EXCEPT !.qty = 0, !.cost = Zero,
                               !.tracked = FALSE])
      ELSE IF h.row = None THEN old
      ELSE IF gone
        THEN [NoPurchases EXCEPT
                !.sold = old.sold \/ h.op = "reduce_quantity"]
      ELSE [old EXCEPT !.reduced = TRUE]

----------------------------------------------------------------------------
(* Actions                                                                 *)

Idle == [pc |-> "idle", items |-> <<>>, i |-> 0, frames |-> <<>>,
         source |-> <<>>]

\* DashboardPage.update_dashboard() as called at the end of a handler
UpdateDashboard(list) ==
  /\ report' = NoReport
  /\ IF list = <<>>
     THEN grid' = {"lbl_empty"} /\ queue' = queue
     ELSE grid' = {} /\ queue' = queue + 1

\* for a reduce that directly follows an add of the same ticker and
\* quantity to an existing position: that position and the price added
Undone(h) ==
  IF /\ h.op = "reduce_quantity" /\ h.committed
     /\ last.op = "add_ticker" /\ last.committed
     /\ last.ticker = h.ticker /\ last.quantity = h.quantity
     /\ last.row # None
  THEN <<last.row, last.price>>
  ELSE None

\* the writes shared by the three handlers, r the result of the handler
Handle(r) ==
  /\ db' = r.db
  /\ portfolio_data' = r.portfolio_data
  /\ last' = [r.last EXCEPT !.undone = Undone(r.last)]
  /\ IF r.last.ticker \in Tickers
     THEN purchases' = [purchases EXCEPT ![r.last.ticker] =
                          PurchasesAfter(@, r.last)]
     ELSE purchases' = purchases
  /\ ops' = ops + 1
  /\ faults' = faults + (IF r.fault THEN 1 ELSE 0)
  /\ faults' <= MaxFaults
  /\ IF r.dash THEN UpdateDashboard(r.portfolio_data)
     ELSE UNCHANGED <<queue, grid, report>>
  /\ UNCHANGED <<worker, after_queue>>

AddTicker(ticker_entry, quantity_entry, price_entry, io) ==
  LET r == add_ticker(ticker_entry, quantity_entry, price_entry, io)
  IN  /\ ops < MaxOps
      /\ \A i \in 1..Len(r.db) : r.db[i][2] <= MaxQty
      /\ Handle(r)

ReduceQuantity(rm_ticker_entry, rm_quantity_entry, io) ==
  /\ ops < MaxOps
  /\ Handle(reduce_quantity(rm_ticker_entry, rm_quantity_entry, io))

DeleteTicker(rm_ticker_entry, io) ==
  /\ ops < MaxOps
  /\ Handle(delete_ticker(rm_ticker_entry, io))

\* the worker thread takes the next job: load_and_display_data enters
\* get_portfolio_data, whose loop holds the list it found in the App
StartJob ==
  /\ queue > 0
  /\ worker.pc = "idle"
  /\ queue' = queue - 1
  /\ worker' = [pc |-> "fetch", items |-> portfolio_data, i |-> 1,
                frames |-> <<>>, source |-> <<>>]
  /\ UNCHANGED <<db, portfolio_data, last, after_queue, grid, report,
                 purchases, ops, faults>>

\* one turn of the loop of get_portfolio_data; history is what yfinance
\* returns for the ticker
FetchNext(history) ==
  /\ worker.pc = "fetch"
  /\ worker.i <= Len(worker.items)
  /\ LET item == worker.items[worker.i]
         df   == fetch_stock_history(item.ticker, item.quantity, history)
     IN  worker' = [worker EXCEPT
                      !.i = @ + 1,
                      !.frames = IF df # <<>> THEN Append(@, df) ELSE @,
                      !.source = Append(@, [ticker |-> item.ticker,
                                            quantity |-> item.quantity,
                                            history |-> history])]
  /\ UNCHANGED <<db, portfolio_data, last, queue, after_queue, grid, report,
                 purchases, ops, faults>>

\* yfinance raises inside the loop: load_and_display_data posts show_error
FetchRaises ==
  /\ worker.pc = "fetch"
  /\ worker.i <= Len(worker.items)
  /\ Len(after_queue) < MaxAfter
  /\ after_queue' = Append(after_queue,
                           [call |-> "show_error", data |-> <<>>,
                            source |-> worker.source,
                            items |-> worker.items])
  /\ worker' = Idle
  /\ UNCHANGED <<db, portfolio_data, last, queue, grid, report, purchases, ops, faults>>

\* the loop is over: get_portfolio_data returns the concatenated frames
\* and load_and_display_data posts display_charts(data)
PostResult ==
  /\ worker.pc = "fetch"
  /\ worker.i > Len(worker.items)
  /\ Len(after_queue) < MaxAfter
  /\ after_queue' = Append(after_queue,
                           [call |-> "display_charts",
                            data |-> concat(worker.frames),
                            source |-> worker.source,
                            items |-> worker.items])
  /\ worker' = Idle
  /\ UNCHANGED <<db, portfolio_data, last, queue, grid, report, purchases, ops, faults>>

\* the Tk event loop runs the oldest posted callback on the main thread
RunCallback ==
  /\ after_queue # <<>>
  /\ LET cb == Head(after_queue)
     IN  IF cb.call = "show_error"
         THEN report' = [report EXCEPT !.error = TRUE] /\ grid' = grid
         ELSE /\ report' = display_charts(cb.data, report, cb.source,
                                           portfolio_data)
              /\ grid' = grid \cup
                   (IF Empty(cb.data) THEN {"lbl_no_data"} ELSE {"charts"})
  /\ after_queue' = Tail(after_queue)
  /\ UNCHANGED <<db, portfolio_data, last, queue, worker, purchases, ops, faults>>

----------------------------------------------------------------------------
(* Price histories                                                         *)

Dates == 1..MaxDates
Closes == {0, 50, 55, 100}

\* every history over Dates: dates strictly ascending
Histories ==
  { h \in UNION {[1..n -> Dates \X Closes] : n \in 0..MaxDates} :
      \A j \in 1..(Len(h) - 1) : h[j][1] < h[j + 1][1] }

\* the histories the provider returns while the user edits the portfolio
LiveHistories == { <<>>, <<<<1, 100>>>>, <<<<1, 50>>, <<2, 55>>>> }

----------------------------------------------------------------------------
(* Specifications                                                          *)

\* App.__init__ and DashboardPage.__init__ on the table the file holds
Started(table) ==
  /\ db = table
  /\ portfolio_data = load_portfolio(table)
  /\ last = Handled("init", <<>>, 0, NoPrice, "", FALSE, None)
  /\ queue = IF table = <<>> THEN 0 ELSE 1
  /\ worker = Idle
  /\ after_queue = <<>>
  /\ grid = IF table = <<>> THEN {"lbl_empty"} ELSE {}
  /\ report = NoReport
  /\ purchases = [t \in Tickers |->
                    [NoPurchases EXCEPT !.tracked = SelectRow(table, t) = None]]
  /\ ops = 0
  /\ faults = 0

\* first start: portfolio.db is created empty
Init == Started(<<>>)

Worker(histories) ==
  \/ StartJob
  \/ \E h \in histories : FetchNext(h)
  \/ FetchRaises
  \/ PostResult
  \/ RunCallback

\* the user presses one of the three buttons of the PortfolioPage
UserOf(tickers, quantities, prices, ios) ==
  \/ \E t \in tickers, q \in quantities, p \in prices, io \in ios :
        AddTicker(t, q, p, io)
  \/ \E t \in tickers, q \in quantities, io \in ios :
        ReduceQuantity(t, q, io)
  \/ \E t \in tickers, io \in ios : DeleteTicker(t, io)

User(ios) == UserOf(RawTickers, RawQuantities, RawPrices, ios)

\* the user edits the portfolio while the worker thread is not scheduled
NextLedger == User({"ok"})

SpecLedger == Init /\ [][NextLedger]_vars

\* the program starts on a portfolio.db an earlier session left behind
SampleTables ==
  { <<>>,
    << <<AAPL, 1, Fin(100, 1)>> >>,
    << <<AAPL, 1, Fin(100, 1)>>, <<MSFT, 2, Fin(50, 1)>> >>,
    << <<MSFT, 2, Fin(50, 1)>>, <<AAPL, 2, Fin(100, 1)>> >> }

InitReport == \E table \in SampleTables : Started(table)

\* the dashboard loads and shows its report; the user does nothing
NextReport == Worker(Histories)

SpecReport == InitReport /\ [][NextReport]_vars

\* what the user types while the dashboard is loading
LiveTickers == { <<" ", "a", "a", "p", "l">>, <<"M", "S", "F", "T">> }
LiveQuantities == { <<"1">> }
LivePrices == { <<"1", "0", "0">> }

\* the user edits the portfolio while the worker thread fetches and the
\* event loop runs the callbacks it posts
NextLive ==
  \/ ops < MaxLiveOps
       /\ UserOf(LiveTickers, LiveQuantities, LivePrices, {"ok"})
  \/ Worker(LiveHistories)

\* the tables the dashboard is loading when the user starts to type
LiveTables ==
  { << <<AAPL, 1, Fin(100, 1)>> >>,
    << <<MSFT, 2, Fin(50, 1)>>, <<AAPL, 2, Fin(100, 1)>> >> }

InitLive == \E table \in LiveTables : Started(table)

SpecLive == InitLive /\ [][NextLive]_vars

\* prices typed while sqlite may fail: one sqlite rejects, one it stores
FaultyPrices == { <<"n", "a", "n">>, <<"1", "0", "0">> }

\* the user edits the portfolio and sqlite may raise in any handler call
NextFaulty == UserOf(LiveTickers, LiveQuantities, FaultyPrices, IoOutcomes)

SpecFaulty == Init /\ [][NextFaulty]_vars

----------------------------------------------------------------------------
(* Properties of the ledger, checked under SpecLedger                      *)

\* the row of the ticker of the last handler call, as the table has it now
Now == SelectRow(db, last.ticker)

\* C1: an add to an existing position (old_q, old_avg) leaves quantity
\* old_q + q and the average (old_q*old_avg + q*p) / (old_q + q); an add of
\* an absent ticker inserts (q, p); {AAPL: 10 @ 100} and add(AAPL, 10, 200)
\* give {AAPL: 20 @ 150}.
AddAveragesCost ==
  (last.op = "add_ticker" /\ last.committed) =>
     /\ Now # None
     /\ IF last.row = None
        THEN Now = <<last.ticker, last.quantity, last.price>>
        ELSE /\ Now[2] = last.row[2] + last.quantity
             /\ IntTimes(Now[2], Now[3]) =
                  Plus(IntTimes(last.row[2], last.row[3]),
                       IntTimes(last.quantity, last.price))
     /\ (last.row = <<AAPL, 10, Fin(100, 1)>> /\ last.quantity = 10
           /\ last.price = Fin(200, 1))
        => Now = <<AAPL, 20, Fin(150, 1)>>

AddAveragesCostWitness ==
  /\ last.op = "add_ticker" /\ last.committed
  /\ last.row = <<AAPL, 10, Fin(100, 1)>>
  /\ last.quantity = 10 /\ last.price = Fin(200, 1)
  /\ Now = <<AAPL, 20, Fin(150, 1)>>

\* C2 as claimed: whenever a position is open, its average cost is the sum
\* of qty*price over the adds since it was opened, divided by the sum of
\* their quantities, reduces in between or not.
AverageIsTotalCostOverTotalBought ==
  \A t \in Tickers :
    (SelectRow(db, t) # None /\ purchases[t].tracked) =>
       IntTimes(purchases[t].qty, SelectRow(db, t)[3]) = purchases[t].cost

\* C2 amended: the same, for a position that no reduce has touched since
\* it was opened.
AverageOfAddsOnly ==
  \A t \in Tickers :
    (SelectRow(db, t) # None /\ purchases[t].tracked
       /\ ~purchases[t].reduced) =>
       /\ purchases[t].qty = SelectRow(db, t)[2]
       /\ IntTimes(purchases[t].qty, SelectRow(db, t)[3]) = purchases[t].cost

AverageOfAddsOnlyWitness ==
  /\ SelectRow(db, AAPL) # None
  /\ ~purchases[AAPL].reduced
  /\ purchases[AAPL].qty = 15
  /\ purchases[AAPL].cost = Fin(2500, 1)
  /\ SelectRow(db, AAPL)[3] = Fin(500, 3)

\* C3: a reduce by less than the quantity held lowers the quantity by that
\* amount, keeps the average cost and leaves every other row as it was.
ReduceKeepsCost ==
  [][ (last'.op = "reduce_quantity" /\ last'.committed
         /\ last'.row # None /\ last'.quantity < last'.row[2]) =>
        /\ last'.quantity > 0
        /\ SelectRow(db', last'.ticker) =
             <<last'.ticker, last'.row[2] - last'.quantity, last'.row[3]>>
        /\ Len(db') = Len(db)
        /\ \A u \in Tickers \ {last'.ticker} :
              SelectRow(db', u) = SelectRow(db, u) ]_vars

ReduceKeepsCostWitness ==
  /\ last.op = "reduce_quantity" /\ last.committed
  /\ last.row # None /\ last.quantity < last.row[2]
  /\ Len(db) = 2
  /\ Now = <<last.ticker, 5, last.row[3]>>

\* C4: a reduce by the quantity held or more removes the ticker from the
\* table and from the list loaded from it, and an add of a ticker that a
\* reduce has removed opens the position at the new quantity and price.
ReduceToZeroRemoves ==
  /\ (last.op = "reduce_quantity" /\ last.committed /\ last.row # None
        /\ last.quantity >= last.row[2]) =>
       /\ Now = None
       /\ \A i \in 1..Len(load_portfolio(db)) :
             load_portfolio(db)[i].ticker # last.ticker
  /\ (last.op = "add_ticker" /\ last.committed /\ last.row = None
        /\ purchases[last.ticker].sold) =>
       Now = <<last.ticker, last.quantity, last.price>>

ReduceToZeroRemovesWitness ==
  /\ last.op = "add_ticker" /\ last.committed /\ last.row = None
  /\ purchases[last.ticker].sold
  /\ Now = <<last.ticker, last.quantity, last.price>>

\* C5: every position of the table and of the in-memory list has an
\* integer quantity > 0 and an average cost > 0, and no ticker occurs twice.
ValidPositions(list) ==
  \A i \in 1..Len(list) :
    /\ list[i].quantity \in Nat \ {0}
    /\ GtZero(list[i].avg_price)
    /\ \A j \in 1..Len(list) : list[j].ticker = list[i].ticker => j = i

PositionsValid ==
  ValidPositions(load_portfolio(db)) /\ ValidPositions(portfolio_data)

PositionsValidWitness ==
  /\ ops = MaxOps
  /\ last.op = "add_ticker" /\ last.msg = "Ungueltige Werte"
  /\ Len(db) = 2 /\ Len(portfolio_data) = 2

\* C6 as claimed: a reduce of a ticker the table does not hold shows an
\* error to the user and leaves the table and the list as they were.
ReduceAbsentReportsNotFound ==
  [][ (last'.op = "reduce_quantity" /\ last'.stored /\ last'.row = None) =>
        /\ last'.msg # ""
        /\ db' = db /\ portfolio_data' = portfolio_data ]_vars

\* C7 as claimed: an add whose ticker is empty, whose quantity is no
\* positive integer or whose price is not positive never reaches the
\* Database and changes neither the table nor the list.
ValidAddInput(h) ==
  h.ticker # <<>> /\ h.quantity > 0 /\ GtZero(h.price)

InvalidAddRejected ==
  [][ (last'.op = "add_ticker" /\ ~ValidAddInput(last')) =>
        /\ ~last'.stored
        /\ db' = db /\ portfolio_data' = portfolio_data ]_vars

\* C8 as claimed: after add(ticker, q, p) to a position (q0, a0) and the
\* reduce(ticker, q) that follows it the quantity is q0 again and the
\* average cost is (q0*a0 + q*p) / (q0 + q), which differs from a0
\* whenever p differs from a0.
AddThenReduceKeepsNewAverage ==
  (last.op = "reduce_quantity" /\ last.undone # None) =>
     LET q0 == last.undone[1][2]
         a0 == last.undone[1][3]
         p  == last.undone[2]
         q  == last.quantity
     IN  /\ Now # None
         /\ Now[2] = q0
         /\ IntTimes(q0 + q, Now[3]) = Plus(IntTimes(q0, a0), IntTimes(q, p))
         /\ (p # a0 => Now[3] # a0)

----------------------------------------------------------------------------
(* Properties of the report, checked under SpecReport                      *)

HasDate(history, date) == \E j \in 1..Len(history) : history[j][1] = date

CloseOn(history, date) ==
  history[CHOOSE j \in 1..Len(history) : history[j][1] = date][2]

\* sum, over the positions that have a close on the date, of
\* quantity * close
RECURSIVE ValueOn(_, _)
ValueOn(source, date) ==
  IF source = <<>> THEN 0
  ELSE (IF HasDate(Head(source).history, date)
        THEN Head(source).quantity * CloseOn(Head(source).history, date)
        ELSE 0)
       + ValueOn(Tail(source), date)

DatesOf(source) ==
  UNION { {source[i].history[j][1] : j \in 1..Len(source[i].history)} :
          i \in 1..Len(source) }

ExampleSource ==
  << [ticker |-> AAPL, quantity |-> 1, history |-> << <<1, 100>> >>],
     [ticker |-> MSFT, quantity |-> 2,
      history |-> << <<1, 50>>, <<2, 55>> >>] >>

\* C9: the daily series has one entry for each date of some ticker's
\* history, in ascending date order, and the entry is the sum of
\* quantity * close over the tickers that have a close on that date;
\* AAPL = [(d1,100)] x 1 and MSFT = [(d1,50),(d2,55)] x 2 give 200 and 110.
DailySeriesIsUnionByDate ==
  (report.kind = "charts") =>
     LET tv == report.total_values
     IN  /\ {tv[k][1] : k \in 1..Len(tv)} = DatesOf(report.source)
         /\ \A k \in 1..(Len(tv) - 1) : tv[k][1] < tv[k + 1][1]
         /\ \A k \in 1..Len(tv) : tv[k][2] = ValueOn(report.source, tv[k][1])
         /\ report.source = ExampleSource
              => tv = << <<1, 200>>, <<2, 110>> >>

DailySeriesWitness ==
  /\ report.kind = "charts"
  /\ report.source = ExampleSource
  /\ report.total_values = << <<1, 200>>, <<2, 110>> >>

\* the value before the last one of the daily series
Baseline(tv) == tv[Len(tv) - 1][2]

NoDivisionByZero ==
  report.daily_percent.k = "fin" /\ report.period_return.k = "fin"

\* C10 as claimed: daily_change and daily_change_pct are both 0 when the
\* series has fewer than two dates or the baseline is 0, otherwise they are
\* last - previous and daily_change / previous * 100; nothing is divided
\* by zero.
DailyChangeZeroOnZeroBaseline ==
  (report.kind = "charts") =>
     LET tv == report.total_values
     IN  /\ IF Len(tv) < 2 \/ Baseline(tv) = 0
            THEN report.daily_change = 0 /\ report.daily_percent = Zero
            ELSE /\ report.daily_change = tv[Len(tv)][2] - Baseline(tv)
                 /\ IntTimes(Baseline(tv), report.daily_percent) =
                      Fin(100 * report.daily_change, 1)
         /\ NoDivisionByZero

\* C10 amended: daily_change is 0 with fewer than two dates and
\* last - previous otherwise, also over a baseline of 0; daily_change_pct is
\* 0 with fewer than two dates or a baseline of 0 and
\* daily_change / previous * 100 otherwise; nothing is divided by zero.
DailyChangeGuardsOnlyThePercentage ==
  (report.kind = "charts") =>
     LET tv == report.total_values
     IN  /\ report.daily_change =
              (IF Len(tv) < 2 THEN 0 ELSE tv[Len(tv)][2] - Baseline(tv))
         /\ IF Len(tv) < 2 \/ Baseline(tv) = 0
            THEN report.daily_percent = Zero
            ELSE IntTimes(Baseline(tv), report.daily_percent) =
                   Fin(100 * report.daily_change, 1)
         /\ NoDivisionByZero

DailyChangeOverZeroBaseline ==
  /\ report.kind = "charts"
  /\ Len(report.total_values) = 2
  /\ Baseline(report.total_values) = 0
  /\ report.daily_change = 110
  /\ report.daily_percent = Zero

\* the positions of the source whose fetch returned data, in ledger order
Priced(source) ==
  LET HasData(e) == e.history # <<>>
  IN  SelectSeq(source, HasData)

FirstValue(e) == e.quantity * e.history[1][2]
LastValue(e) == e.quantity * e.history[Len(e.history)][2]

\* (last value - first value) / first value * 100 over the position's own
\* series, 0 when the first value is 0
ReturnOf(e) ==
  IF FirstValue(e) = 0 THEN Zero
  ELSE Fin((LastValue(e) - FirstValue(e)) * 100, FirstValue(e))

\* a >= b for finite floats
AtLeast(a, b) == a.n * b.d >= b.n * a.d

\* position i of ps has the best return under the order geq and is named
\* by the performer shown
IsBest(performer, ps, i, geq(_, _)) ==
  /\ performer = <<ps[i].ticker, ReturnOf(ps[i])>>
  /\ \A j \in 1..Len(ps) : geq(ReturnOf(ps[i]), ReturnOf(ps[j]))

AtMost(a, b) == AtLeast(b, a)

\* among the positions that tie with position i, i comes first in ledger
\* order
FirstInLedger(ps, i) ==
  \A j \in 1..(i - 1) : ReturnOf(ps[j]) # ReturnOf(ps[i])

\* among the positions that tie with position i, i has the least ticker
FirstByTicker(ps, i) ==
  \A j \in 1..Len(ps) :
    (j # i /\ ReturnOf(ps[j]) = ReturnOf(ps[i]))
       => StrLess(ps[i].ticker, ps[j].ticker)

\* C11 as claimed: top and flop performer are the tickers with the maximum
\* and the minimum per-ticker return (last - first) / first * 100 over the
\* ticker's own series, 0 when the first value is 0; of several tickers
\* that tie, the first in the order of the ledger's positions wins.
PerformersTieByLedgerOrder ==
  (report.kind = "charts") =>
     LET ps == Priced(report.source)
     IN  /\ \E i \in 1..Len(ps) :
               IsBest(report.top, ps, i, AtLeast) /\ FirstInLedger(ps, i)
         /\ \E i \in 1..Len(ps) :
               IsBest(report.flop, ps, i, AtMost) /\ FirstInLedger(ps, i)

\* C11 amended: the same returns, maximum and minimum; of several tickers
\* that tie, the one whose ticker sorts first wins.
PerformersTieByTicker ==
  (report.kind = "charts") =>
     LET ps == Priced(report.source)
     IN  /\ \E i \in 1..Len(ps) :
               IsBest(report.top, ps, i, AtLeast) /\ FirstByTicker(ps, i)
         /\ \E i \in 1..Len(ps) :
               IsBest(report.flop, ps, i, AtMost) /\ FirstByTicker(ps, i)

PerformersTieWitness ==
  /\ report.kind = "charts"
  /\ Len(report.source) = 2
  /\ report.source[1].ticker = MSFT /\ report.source[2].ticker = AAPL
  /\ report.source[1].history # <<>> /\ report.source[2].history # <<>>
  /\ ReturnOf(report.source[1]) = Fin(10, 1)
  /\ ReturnOf(report.source[2]) = Fin(10, 1)
  /\ report.top = <<AAPL, Fin(10, 1)>>
  /\ report.flop = <<AAPL, Fin(10, 1)>>

\* the report display_charts gives for a ledger that holds only position e
ReportOfOnly(e) ==
  display_charts(fetch_stock_history(e.ticker, e.quantity, e.history),
                 NoReport, <<e>>,
                 <<[ticker |-> e.ticker, quantity |-> e.quantity,
                    avg_price |-> Fin(1, 1)]>>)

\* two positions were fetched and exactly one of them has no price data
OneOfTwoUnavailable(source) ==
  Len(source) = 2 /\ Len(Priced(source)) = 1

\* C12: when one of two ledger tickers has no price data the report is
\* still produced; the unavailable ticker is absent from the composition
\* and from the daily series, and the surviving ticker's composition value
\* is quantity * last close and its period return is that of a report for
\* a ledger that holds only the surviving ticker.
SurvivorReportedAlone ==
  /\ \A k \in 1..Len(after_queue) :
        OneOfTwoUnavailable(after_queue[k].source) =>
           after_queue[k].call = "display_charts" /\ after_queue[k].data # <<>>
  /\ OneOfTwoUnavailable(report.source) =>
       LET e  == Priced(report.source)[1]
           tv == report.total_values
       IN  /\ report.kind = "charts"
           /\ report.composition = << <<e.ticker, LastValue(e)>> >>
           /\ report.composition = ReportOfOnly(e).composition
           /\ Len(tv) = Len(e.history)
           /\ \A k \in 1..Len(tv) :
                 tv[k] = <<e.history[k][1], e.quantity * e.history[k][2]>>
           /\ report.period_return = ReturnOf(e)
           /\ report.period_return = ReportOfOnly(e).period_return

SurvivorReportedAloneWitness ==
  /\ report.kind = "charts"
  /\ report.source =
       << [ticker |-> AAPL, quantity |-> 1, history |-> <<>>],
          [ticker |-> MSFT, quantity |-> 2,
           history |-> << <<1, 50>>, <<2, 55>> >>] >>
  /\ report.composition = << <<MSFT, 110>> >>
  /\ report.total_values = << <<1, 100>>, <<2, 110>> >>
  /\ report.period_return = Fin(10, 1)

----------------------------------------------------------------------------
(* Properties of the report while the user edits, checked under SpecLive   *)

\* sum of quantity * average cost over the positions of a list
RECURSIVE CostBasis(_)
CostBasis(list) ==
  IF list = <<>> THEN Zero
  ELSE Plus(IntTimes(Head(list).quantity, Head(list).avg_price),
            CostBasis(Tail(list)))

\* sum of quantity * last close over the positions that have price data
RECURSIVE CurrentValue(_)
CurrentValue(source) ==
  IF source = <<>> THEN 0
  ELSE (IF Head(source).history # <<>> THEN LastValue(Head(source)) ELSE 0)
       + CurrentValue(Tail(source))

RECURSIVE SumOfValues(_)
SumOfValues(composition) ==
  IF composition = <<>> THEN 0
  ELSE composition[Len(composition)][2]
       + SumOfValues(SubSeq(composition, 1, Len(composition) - 1))

\* C13: the since-purchase return is (current_total_value -
\* total_cost_basis) / total_cost_basis * 100, current_total_value being the
\* sum of the composition values and total_cost_basis the sum of quantity *
\* average cost over the ledger's positions; it is 0 whenever the cost
\* basis is not > 0, and nothing is divided by zero.
SincePurchaseReturn ==
  (report.kind = "charts") =>
     LET cost  == CostBasis(report.positions)
         value == SumOfValues(report.composition)
         pct   == report.total_return_since_purchase
     IN  /\ value = CurrentValue(report.source)
         /\ pct.k = "fin"
         /\ IF cost.k = "fin" /\ cost.n > 0
            THEN pct.n * cost.n = 100 * (value * cost.d - cost.n) * pct.d
            ELSE pct = Zero

SincePurchaseReturnWitness ==
  /\ report.kind = "charts"
  /\ report.positions = load_portfolio(<< <<AAPL, 1, Fin(100, 1)>> >>)
  /\ report.composition = << <<AAPL, 55>> >>
  /\ report.total_return_since_purchase = Fin(0 - 45, 1)

\* a handler has just called update_dashboard with an empty list
RequestOverEmptyLedger ==
  ops' = ops + 1 /\ last'.committed /\ portfolio_data' = <<>>

\* get_portfolio_data has just returned from a loop in which no fetch
\* gave data
AllFetchesEmpty ==
  /\ worker.pc = "fetch" /\ worker.i > Len(worker.items)
  /\ Priced(worker.source) = <<>>
  /\ worker' = Idle

\* the event loop has just run display_charts on a frame without rows
EmptyFrameDisplayed ==
  /\ after_queue # <<>> /\ after_queue' = Tail(after_queue)
  /\ Head(after_queue).call = "display_charts"
  /\ Priced(Head(after_queue).source) = <<>>

\* C14: a report request does not end in an error because data is missing:
\* with an empty ledger update_dashboard submits no job and shows the
\* empty-portfolio label, and when no fetch of a job returns data the job
\* posts display_charts, which shows the no-data label and raises nothing.
MissingDataIsNoError ==
  [][ /\ RequestOverEmptyLedger =>
           /\ queue' = queue /\ worker' = worker
           /\ after_queue' = after_queue
           /\ grid' = {"lbl_empty"} /\ report' = NoReport
      /\ AllFetchesEmpty =>
           /\ Len(after_queue') = Len(after_queue) + 1
           /\ after_queue'[Len(after_queue')].call = "display_charts"
           /\ after_queue'[Len(after_queue')].data = <<>>
      /\ EmptyFrameDisplayed =>
           /\ report'.kind = "no_data"
           /\ report'.error = report.error
           /\ "lbl_no_data" \in grid' ]_vars

MissingDataIsNoErrorWitness ==
  /\ portfolio_data = <<>>
  /\ last.op = "delete_ticker" /\ last.committed
  /\ queue = 0 /\ worker = Idle /\ after_queue = <<>>
  /\ grid = {"lbl_empty", "lbl_no_data"}
  /\ report.kind = "no_data" /\ ~report.error
  /\ report.source # <<>> /\ Priced(report.source) = <<>>

----------------------------------------------------------------------------
(* Properties of store and memory, checked under SpecFaulty                *)

\* C15 as claimed: between user operations App.portfolio_data equals the
\* content of the store; a handler whose store call succeeds leaves the
\* list reloaded from the store, and a handler whose store call fails
\* reports the failure and changes neither the store nor the list.
MemoryEqualsStore ==
  [][ /\ portfolio_data' = load_portfolio(db')
      /\ (last'.stored /\ ~last'.committed) =>
           /\ last'.msg # ""
           /\ db' = db /\ portfolio_data' = portfolio_data ]_vars

----------------------------------------------------------------------------
(* Properties of the report and the ledger it reads, checked under         *)
(* SpecLive                                                                *)

\* the event loop has just run display_charts on a frame with rows
ChartsDisplayed ==
  /\ after_queue # <<>> /\ after_queue' = Tail(after_queue)
  /\ Head(after_queue).call = "display_charts"
  /\ report'.kind = "charts"

\* C16 as claimed: every report displayed is computed from one ledger
\* snapshot: the list whose quantities and average costs display_charts
\* sums for the cost basis is the list whose quantities the worker valued
\* the price series with, also when a handler ran while the fetch was in
\* flight.
ReportFromOneSnapshot ==
  [][ ChartsDisplayed =>
        report'.positions = Head(after_queue).items ]_vars

====
